---- MODULE Spec2Model ----
(***************************************************************************)
(* State-machine model of the easy-collimator web application:             *)
(* ZoomController, CrosshairController, WebcamManager, UIController and    *)
(* ExposureController.  One record variable per JavaScript object; the     *)
(* fields keep the names of the source.                                    *)
(*                                                                         *)
(* Numbers.  JavaScript numbers are doubles; the model uses fixed point:   *)
(*   zc.scale                    tenths (scaleStep 0.1 is 1)               *)
(*   zc.translateX/Y, mouse x/y  px, divisions rounded to the nearest px   *)
(*   cc.* lengths                hundredths of a px (Unit = 100)           *)
(*   ec.exposure                 hundredths                                *)
(***************************************************************************)
EXTENDS Integers, Sequences, FiniteSets, TLC

VARIABLES
    env,   \* the DOM container #webcamContainer: [width, height] in px
    zc,    \* ZoomController fields
    cc,    \* CrosshairController fields and the style of the crosshair elements
    wm,    \* WebcamManager fields and the outcome of its last calls
    ui,    \* UIController state, status line and start/stop button
    ec,    \* ExposureController settings and its monitoring interval
    ov,    \* OverlayRenderer render-loop fields
    tm     \* pending timers and promises of the browser event loop

vars == <<env, zc, cc, wm, ui, ec, ov, tm>>

----------------------------------------------------------------------------
(* Arithmetic helpers                                                      *)

Min(a, b) == IF a < b THEN a ELSE b

Max(a, b) == IF a > b THEN a ELSE b

Abs(a) == IF a < 0 THEN -a ELSE a

\* a / b for b > 0, rounded to the nearest integer, halves up (Math.round)
RoundDiv(a, b) == (2 * a + b) \div (2 * b)

\* a / b for b > 0, truncated toward zero
TruncDiv(a, b) == IF a >= 0 THEN a \div b ELSE -((-a) \div b)

\* hundredths of a px in one px
Unit == 100

\* parseInt("<v>px") for a length v >= 0 held in hundredths: the integer px
ParseIntPx(v) == (v \div Unit) * Unit

----------------------------------------------------------------------------
(* CrosshairController: circle geometry                                    *)

\* container.clientWidth / clientHeight in hundredths
ClientWidth == env.width * Unit

ClientHeight == env.height * Unit

\* updateCircleSizes(): first-time sizes, then the limits of every circle
UpdateCircleSizes(c) ==
    IF env.height > 0 THEN
        LET circle1Size == Unit * RoundDiv(env.height * 77, 100)
            circle2Size == Unit * RoundDiv(env.height * 385, 1000)
            circle3Size == Unit * RoundDiv(env.height * 1925, 10000)
            s1 == IF c.circle1SizeControl.currentSize = 0
                  THEN circle1Size ELSE c.circle1SizeControl.currentSize
            s2 == IF c.circle2SizeControl.currentSize = 0
                  THEN circle2Size ELSE c.circle2SizeControl.currentSize
            s3 == IF c.circle3SizeControl.currentSize = 0
                  THEN circle3Size ELSE c.circle3SizeControl.currentSize
        IN [c EXCEPT
              !.circle1SizeControl.currentSize = s1,
              !.circle2SizeControl.currentSize = s2,
              !.circle3SizeControl.currentSize = s3,
              !.circle1Width = s1,
              !.circle2Width = s2,
              !.circle3Width = s3,
              !.circle1SizeControl.minSize =
                  Max(50 * Unit, s2 + c.circle1SizeControl.marginFromCircle2),
              !.circle1SizeControl.maxSize = Min(env.width, env.height) * 98,
              !.circle2SizeControl.minSize =
                  Max(c.circle2SizeControl.borderWidth * 10,
                      s3 + c.circle3SizeControl.marginFromCircle2),
              !.circle2SizeControl.maxSize =
                  s1 - c.circle1SizeControl.marginFromCircle2,
              !.circle3SizeControl.minSize = c.circle3SizeControl.borderWidth * 10,
              !.circle3SizeControl.maxSize =
                  s2 - c.circle3SizeControl.marginFromCircle2]
    ELSE c

\* getCircle1Radius() etc.: half of parseInt(style.width), with the fallback
\* width when the parsed width is 0
getCircle1Radius(c) ==
    (IF ParseIntPx(c.circle1Width) # 0 THEN ParseIntPx(c.circle1Width) ELSE 140 * Unit) \div 2

getCircle2Radius(c) ==
    (IF ParseIntPx(c.circle2Width) # 0 THEN ParseIntPx(c.circle2Width) ELSE 70 * Unit) \div 2

getCircle3Radius(c) ==
    (IF ParseIntPx(c.circle3Width) # 0 THEN ParseIntPx(c.circle3Width) ELSE 35 * Unit) \div 2

\* the largest diameter that keeps a circle around the current centre inside
\* the container with the 5 px safety margin (maxDiameter in the handlers)
safetyMargin == 5 * Unit

MaxDiameter(c) ==
    LET currentCenterX == ClientWidth \div 2 + c.centerOffsetX
        currentCenterY == ClientHeight \div 2 + c.centerOffsetY
        maxRadiusX == Min(currentCenterX - safetyMargin,
                          ClientWidth - currentCenterX - safetyMargin)
        maxRadiusY == Min(currentCenterY - safetyMargin,
                          ClientHeight - currentCenterY - safetyMargin)
        maxRadius == Max(0, Min(maxRadiusX, maxRadiusY))
    IN maxRadius * 2

\* the step of one wheel event: fineStep while the right button is held
StepSize(c, ctl) == IF c.isMiddleMouseDown THEN ctl.fineStep ELSE ctl.step

\* handleCircle2SizeChange(event)
handleCircle2SizeChange(c, deltaY) ==
    LET ctl == c.circle2SizeControl
        direction == IF deltaY < 0 THEN 1 ELSE -1
        newSize == ctl.currentSize + StepSize(c, ctl) * direction
        boundaryConstrainedMaxSize == Min(ctl.maxSize, MaxDiameter(c))
        clampedSize == Max(ctl.minSize, Min(boundaryConstrainedMaxSize, newSize))
    IN IF clampedSize # ctl.currentSize
       THEN [c EXCEPT !.circle2SizeControl.currentSize = clampedSize,
                      !.circle2Width = clampedSize]
       ELSE c

\* handleCircle1SizeChange(deltaY)
handleCircle1SizeChange(c, deltaY) ==
    LET ctl == c.circle1SizeControl
        direction == IF deltaY > 0 THEN -1 ELSE 1
        newSize == ctl.currentSize + direction * StepSize(c, ctl)
        boundaryConstrainedMaxSize == Min(ctl.maxSize, MaxDiameter(c))
        clampedSize == Max(ctl.minSize, Min(boundaryConstrainedMaxSize, newSize))
    IN IF clampedSize # ctl.currentSize
       THEN UpdateCircleSizes([c EXCEPT !.circle1SizeControl.currentSize = clampedSize,
                                        !.circle1Width = clampedSize])
       ELSE c

\* a handleCircle3SizeChange that clamps to the lower limit only
handleCircle3SizeChange_NoUpperLimit(c, deltaY) ==
    LET ctl == c.circle3SizeControl
        direction == IF deltaY < 0 THEN 1 ELSE -1
        newSize == ctl.currentSize + StepSize(c, ctl) * direction
        clampedSize == Max(ctl.minSize, newSize)
    IN IF clampedSize # ctl.currentSize
       THEN UpdateCircleSizes([c EXCEPT !.circle3SizeControl.currentSize = clampedSize,
                                        !.circle3Width = clampedSize])
       ELSE c

\* handleCircle3SizeChange(event)
handleCircle3SizeChange(c, deltaY) ==
    LET ctl == c.circle3SizeControl
        direction == IF deltaY < 0 THEN 1 ELSE -1
        newSize == ctl.currentSize + StepSize(c, ctl) * direction
        boundaryConstrainedMaxSize == Min(ctl.maxSize, MaxDiameter(c))
        clampedSize == Max(ctl.minSize, Min(boundaryConstrainedMaxSize, newSize))
    IN IF clampedSize # ctl.currentSize
       THEN UpdateCircleSizes([c EXCEPT !.circle3SizeControl.currentSize = clampedSize,
                                        !.circle3Width = clampedSize])
       ELSE c

\* handleRotation(deltaY); angles in hundredths of a degree
handleRotation(c, deltaY) ==
    LET direction == IF deltaY > 0 THEN 1 ELSE -1
        stepSize == IF c.isMiddleMouseDown THEN c.fineRotationStep ELSE c.rotationStep
    IN [c EXCEPT !.rotationAngle = (c.rotationAngle + direction * stepSize) % 36000]

----------------------------------------------------------------------------
(* ZoomController                                                          *)

\* constrainTranslation(): the pan limits of the current scale
maxTranslateX(z) == Max(0, (env.width * z.scale - env.width * 10) \div 20)

maxTranslateY(z) == Max(0, (env.height * z.scale - env.height * 10) \div 20)

constrainTranslation(z) ==
    [z EXCEPT !.translateX = Max(-maxTranslateX(z), Min(maxTranslateX(z), z.translateX)),
              !.translateY = Max(-maxTranslateY(z), Min(maxTranslateY(z), z.translateY))]

\* the translation that keeps the point under (mouseX, mouseY) fixed while the
\* scale goes from z.scale to newScale:
\*   currentMouse = (mouse - containerCenter - translate) / scale
\*   translate'   = mouse - containerCenter - currentMouse * newScale
\* computed on doubled offsets so that an odd container width has a centre
ZoomTranslate(mouse, size, translate, scale, newScale) ==
    LET m2 == 2 * mouse - size
    IN RoundDiv(m2 * scale - (m2 - 2 * translate) * newScale, 2 * scale)

ZoomAbout(z, mouseX, mouseY, newScale) ==
    constrainTranslation(
        [z EXCEPT !.scale = newScale,
                  !.translateX = ZoomTranslate(mouseX, env.width, z.translateX,
                                               z.scale, newScale),
                  !.translateY = ZoomTranslate(mouseY, env.height, z.translateY,
                                               z.scale, newScale)])

\* the early return of handleWheel / handleWheelForCrosshair at the limits
WheelScaleRejected(z, newScale) == newScale < z.minScale \/ newScale > z.maxScale

\* getZoomInfo() as carried by the zoomChanged event
getZoomInfo(z) ==
    [scale |-> z.scale, translateX |-> z.translateX, translateY |-> z.translateY]

\* dispatchZoomEvent(): zoomChanged lists the events the running handler has
\* dispatched on the container
dispatchZoomEvent(z) == [z EXCEPT !.zoomChanged = Append(@, getZoomInfo(z))]

\* the zoom branch of handleWheel(event), taken when zoomEnabled
WheelZoom(z, mouseX, mouseY, deltaY) ==
    LET zoomDirection == IF deltaY < 0 THEN 1 ELSE -1
        newScale == z.scale + z.scaleStep * zoomDirection
    IN IF WheelScaleRejected(z, newScale) THEN z
       ELSE dispatchZoomEvent(ZoomAbout(z, mouseX, mouseY, newScale))

\* handleWheelForCrosshair(event): the same about the container centre
handleWheelForCrosshair(z, deltaY) ==
    LET zoomDirection == IF deltaY < 0 THEN 1 ELSE -1
        newScale == z.scale + z.scaleStep * zoomDirection
    IN IF WheelScaleRejected(z, newScale) THEN z
       ELSE dispatchZoomEvent(
                constrainTranslation(
                    [z EXCEPT !.scale = newScale,
                              !.translateX = RoundDiv(z.translateX * newScale, z.scale),
                              !.translateY = RoundDiv(z.translateY * newScale, z.scale)]))

\* setZoom without the clamp of the requested scale
setZoom_Unclamped(z, requested, hasCenter, centerX, centerY) ==
    dispatchZoomEvent(
        IF hasCenter THEN ZoomAbout(z, centerX, centerY, requested)
        ELSE [z EXCEPT !.scale = requested])

\* setZoom(scale, centerX, centerY); hasCenter is centerX !== null && centerY !== null
setZoom(z, requested, hasCenter, centerX, centerY) ==
    LET clamped == Max(z.minScale, Min(z.maxScale, requested))
    IN dispatchZoomEvent(
           IF hasCenter THEN ZoomAbout(z, centerX, centerY, clamped)
           ELSE [z EXCEPT !.scale = clamped])

\* a resetZoom() that restores the scale and leaves the translation
resetZoom_KeepsTranslation(z) == dispatchZoomEvent([z EXCEPT !.scale = 10])

\* resetZoom()
resetZoom(z) ==
    dispatchZoomEvent([z EXCEPT !.scale = 10, !.translateX = 0, !.translateY = 0])

\* handleMouseMove(event) of the zoom controller
zoomHandleMouseMove(z, clientX, clientY) ==
    IF z.isDragging
    THEN [constrainTranslation(
              [z EXCEPT !.translateX = z.translateX + (clientX - z.lastMouseX),
                        !.translateY = z.translateY + (clientY - z.lastMouseY)])
          EXCEPT !.lastMouseX = clientX, !.lastMouseY = clientY]
    ELSE z

\* handleMouseDown(event) of the zoom controller
zoomHandleMouseDown(z, button, clientX, clientY) ==
    IF button = 0
    THEN [z EXCEPT !.isDragging = TRUE, !.lastMouseX = clientX, !.lastMouseY = clientY]
    ELSE z

\* handleMouseUp() of the zoom controller
zoomHandleMouseUp(z) == [z EXCEPT !.isDragging = FALSE]

----------------------------------------------------------------------------
(* CrosshairController: visibility, wheel routing, drag, reset             *)

\* isCameraActive(): webcamManager.getIsActive()
isCameraActive(w) == w.isActive

\* show(): a no-op unless the camera is active; disables wheel zoom.
\* Returns the pair of the controllers it writes.
show(c, z, w) ==
    IF ~isCameraActive(w) THEN [cc |-> c, zc |-> z]
    ELSE [cc |-> [c EXCEPT !.isVisible = TRUE,
                           !.hLineDisplay = "none",
                           !.iconDisplay = "flex"],
          zc |-> [z EXCEPT !.zoomEnabled = FALSE]]

\* hide(): re-enables wheel zoom
hide(c, z) ==
    [cc |-> [c EXCEPT !.isVisible = FALSE, !.iconDisplay = "none"],
     zc |-> [z EXCEPT !.zoomEnabled = TRUE]]

\* onCameraStateChange(isActive)
onCameraStateChange(c, z, isActive) ==
    IF ~isActive /\ c.isVisible THEN hide(c, z) ELSE [cc |-> c, zc |-> z]

\* isMouseOver...Icon(event): the icon is displayed and the pointer is in its box
isMouseOverIcon(c, over, icon) == c.iconDisplay # "none" /\ over = icon

\* handleWheelEvent(event): rotation, resize of one circle, nothing, or zoom.
\* over names the icon under the pointer ("none" when there is none).
handleWheelEvent(c, z, over, mouseX, mouseY, deltaY) ==
    IF ~c.isVisible THEN [cc |-> c, zc |-> z]
    ELSE IF isMouseOverIcon(c, over, "rotation")
    THEN [cc |-> handleRotation(c, deltaY), zc |-> z]
    ELSE IF isMouseOverIcon(c, over, "toggle1") /\ c.circle1Visible
    THEN [cc |-> handleCircle1SizeChange(c, deltaY), zc |-> z]
    ELSE IF isMouseOverIcon(c, over, "toggle2") /\ c.circle2Visible
    THEN [cc |-> handleCircle2SizeChange(c, deltaY), zc |-> z]
    ELSE IF isMouseOverIcon(c, over, "toggle3") /\ c.circle3Visible
    THEN [cc |-> handleCircle3SizeChange(c, deltaY), zc |-> z]
    ELSE IF \/ isMouseOverIcon(c, over, "toggle1")
            \/ isMouseOverIcon(c, over, "toggle2")
            \/ isMouseOverIcon(c, over, "toggle3")
    THEN [cc |-> c, zc |-> z]
    ELSE IF isMouseOverIcon(c, over, "reset")
    THEN [cc |-> c, zc |-> z]
    ELSE
        LET centerX == ClientWidth \div 2 + c.centerOffsetX
            centerY == ClientHeight \div 2 + c.centerOffsetY
            dx == mouseX * Unit - centerX
            dy == mouseY * Unit - centerY
            \* distance <= radius, compared on the squares
            within(radius) == dx * dx + dy * dy <= radius * radius
        IN IF within(getCircle3Radius(c)) /\ c.circle3Visible
           THEN [cc |-> handleCircle3SizeChange(c, deltaY), zc |-> z]
           ELSE IF within(getCircle2Radius(c)) /\ c.circle2Visible
           THEN [cc |-> handleCircle2SizeChange(c, deltaY), zc |-> z]
           ELSE IF within(getCircle1Radius(c)) /\ c.circle1Visible
           THEN [cc |-> handleCircle1SizeChange(c, deltaY), zc |-> z]
           ELSE [cc |-> c, zc |-> handleWheelForCrosshair(z, deltaY)]

\* resetCenterPosition()
resetCenterPosition(c) == [c EXCEPT !.centerOffsetX = 0, !.centerOffsetY = 0]

\* resetCirclesToDefault()
resetCirclesToDefault(c) ==
    IF env.height > 0 THEN
        LET circle1Size == Unit * RoundDiv(env.height * 77, 100)
            circle2Size == Unit * RoundDiv(env.height * 385, 1000)
            circle3Size == Unit * RoundDiv(env.height * 1925, 10000)
            sized == [c EXCEPT !.circle1SizeControl.currentSize = circle1Size,
                               !.circle2SizeControl.currentSize = circle2Size,
                               !.circle3SizeControl.currentSize = circle3Size,
                               !.circle1Visible = TRUE,
                               !.circle2Visible = FALSE,
                               !.circle3Visible = FALSE,
                               !.circle1Width = circle1Size,
                               !.circle2Width = circle2Size,
                               !.circle3Width = circle3Size]
        IN [resetCenterPosition([UpdateCircleSizes(sized) EXCEPT !.rotationAngle = 4500])
            EXCEPT !.hLineDisplay = "none"]
    ELSE c

\* resetRotation()
resetRotation(c) == [c EXCEPT !.rotationAngle = 4500]

\* toggleCircle1Visibility() etc.
toggleCircle1Visibility(c) == [c EXCEPT !.circle1Visible = ~c.circle1Visible]

toggleCircle2Visibility(c) == [c EXCEPT !.circle2Visible = ~c.circle2Visible]

toggleCircle3Visibility(c) == [c EXCEPT !.circle3Visible = ~c.circle3Visible]

\* toggleCrosshairLines(): shows the crosshair when it is hidden, otherwise
\* flips the display of the two lines
toggleCrosshairLines(c, z, w) ==
    IF ~c.isVisible THEN show(c, z, w)
    ELSE [cc |-> [c EXCEPT !.hLineDisplay =
                      IF c.hLineDisplay = "none" THEN "block" ELSE "none"],
          zc |-> z]

\* the end of a centre drag (mouseup of the middle button, mouseleave)
EndCenterDrag(c) ==
    IF c.isDraggingCenter
    THEN [c EXCEPT !.isDraggingCenter = FALSE,
                   !.hLineDisplay = IF ~c.crosshairLinesVisibleBeforeDrag
                                    THEN "none" ELSE c.hLineDisplay]
    ELSE c

\* container mousedown listener of the crosshair controller
crosshairMouseDown(c, button, mouseX, mouseY) ==
    IF button = 1 THEN
        IF c.isVisible THEN
            [c EXCEPT !.dragMouseOffsetX =
                          (ClientWidth \div 2 + c.centerOffsetX) - mouseX * Unit,
                      !.dragMouseOffsetY =
                          (ClientHeight \div 2 + c.centerOffsetY) - mouseY * Unit,
                      !.crosshairLinesVisibleBeforeDrag = (c.hLineDisplay # "none"),
                      !.hLineDisplay = "block",
                      !.isDraggingCenter = TRUE]
        ELSE c
    ELSE IF button = 2 THEN [c EXCEPT !.isMiddleMouseDown = TRUE]
    ELSE c

\* container mousemove listener: drag of the centre, constrained by circle_1
crosshairMouseMove(c, mouseX, mouseY) ==
    IF c.isDraggingCenter /\ c.isVisible THEN
        LET newCenterX == mouseX * Unit + c.dragMouseOffsetX
            newCenterY == mouseY * Unit + c.dragMouseOffsetY
            circle1Radius == getCircle1Radius(c)
            constrainedCenterX ==
                Max(circle1Radius + safetyMargin,
                    Min(ClientWidth - circle1Radius - safetyMargin, newCenterX))
            constrainedCenterY ==
                Max(circle1Radius + safetyMargin,
                    Min(ClientHeight - circle1Radius - safetyMargin, newCenterY))
        IN [c EXCEPT !.centerOffsetX = constrainedCenterX - ClientWidth \div 2,
                     !.centerOffsetY = constrainedCenterY - ClientHeight \div 2]
    ELSE c

\* container mouseup listener
crosshairMouseUp(c, button) ==
    IF button = 1 THEN EndCenterDrag(c)
    ELSE IF button = 2 THEN [c EXCEPT !.isMiddleMouseDown = FALSE]
    ELSE c

\* container mouseleave listener
crosshairMouseLeave(c) == EndCenterDrag([c EXCEPT !.isMiddleMouseDown = FALSE])

----------------------------------------------------------------------------
(* WebcamManager and UIController                                          *)

\* WebcamManager.getErrorMessage(error)
getErrorMessage(name) ==
    IF name = "NotFoundError" \/ name = "DevicesNotFoundError"
    THEN "No camera found. Please connect a camera and try again."
    ELSE IF name = "NotAllowedError" \/ name = "PermissionDeniedError"
    THEN "Camera access denied. Please allow camera permission and refresh the page."
    ELSE IF name = "NotSupportedError"
    THEN "Camera not supported by this browser."
    ELSE IF name = "NotReadableError" \/ name = "TrackStartError"
    THEN "Camera is already in use by another application."
    ELSE "Unknown camera error occurred."

\* the methods the WebcamManager class defines
WebcamManagerMethods ==
    {"initialize", "loadAvailableCameras", "loadCamerasFallback", "setupVideoElement",
     "startWebcam", "stopWebcam", "updateConstraintsForQuality", "onVideoLoaded",
     "handleError", "getErrorMessage", "getVideoDimensions", "getCameras",
     "getCurrentCamera", "getIsActive"}

\* the single entry both fallbacks install
DefaultCamera == <<"default">>

\* An answer of enumerateDevices(): it throws, or lists the video inputs
Enumerations ==
    {[throws |-> TRUE, videoinputs |-> <<>>],
     [throws |-> FALSE, videoinputs |-> <<>>],
     [throws |-> FALSE, videoinputs |-> <<"cam1">>],
     [throws |-> FALSE, videoinputs |-> <<"cam1", "cam2">>]}

\* loadCamerasFallback(originalError): enumerate without permission, else the
\* default entry
loadCamerasFallback(w, devices) ==
    IF ~devices.throws /\ Len(devices.videoinputs) > 0
    THEN [w EXCEPT !.availableCameras = devices.videoinputs, !.loadResult = "resolved"]
    ELSE [w EXCEPT !.availableCameras = DefaultCamera, !.loadResult = "resolved"]

\* the call this.loadCamerasWithFallback(error) in the catch block: calling a
\* method the object does not have throws a TypeError, which rejects the
\* promise of loadAvailableCameras
CallFallback(w, method, devices) ==
    IF method \in WebcamManagerMethods /\ method = "loadCamerasFallback"
    THEN loadCamerasFallback(w, devices)
    ELSE [w EXCEPT !.loadResult = "rejected"]

\* loadAvailableCameras(): gum is "ok" or the exception of getUserMedia,
\* devices the answer of enumerateDevices, devices2 the answer to a second
\* enumeration
loadAvailableCameras(w, gum, devices, devices2) ==
    IF gum = "ok" /\ ~devices.throws
    THEN [w EXCEPT !.availableCameras =
                       IF Len(devices.videoinputs) = 0
                       THEN DefaultCamera ELSE devices.videoinputs,
                   !.loadResult = "resolved"]
    ELSE CallFallback(w, "loadCamerasWithFallback", devices2)

\* WebcamManager.stopWebcam()
wmStopWebcam(w) == [w EXCEPT !.stream = FALSE, !.liveTracks = 0, !.isActive = FALSE]

\* UIController.enableStartButton()
enableStartButton(u) == [u EXCEPT !.startStopDisabled = (u.selectedCamera = "")]

\* UIController.updateStatus(message, type)
updateStatus(u, message, type) ==
    [u EXCEPT !.currentStatus = message, !.alertType = type]

\* UIController.showError(message): the status line, and a 10 s timer that
\* restores 'Ready' if the message is still shown
showError(u, t, message) ==
    [ui |-> updateStatus(u, message, "danger"),
     tm |-> [t EXCEPT !.errorTimers = t.errorTimers \cup {message}]]

\* UIController.onWebcamError(errorInfo), the listener of webcamError
onWebcamError(u, t, message) ==
    LET shown == showError(u, t, message)
    IN [ui |-> [enableStartButton(shown.ui) EXCEPT !.isStarted = FALSE],
        tm |-> shown.tm]

\* the catch block of UIController.startWebcam
uiStartCatch(u, t) ==
    LET shown == showError(u, t, "Failed to start camera")
    IN [ui |-> enableStartButton(shown.ui), tm |-> shown.tm]

\* the failure path of one start: the catch block of WebcamManager.startWebcam
\* (handleError dispatches webcamError synchronously, then the error is
\* rethrown) followed by the catch block of UIController.startWebcam
StartFailureHandling(u, t, name) ==
    LET first == onWebcamError(u, t, getErrorMessage(name))
    IN uiStartCatch(first.ui, first.tm)

----------------------------------------------------------------------------
(* ExposureController.  Arguments are numbers in hundredths; exposure is   *)
(* kept in hundredths, the other settings are integers after parseInt.     *)

\* parseInt(value) of a number: its integer part
ParseInt(v) == TruncDiv(v, 100)

\* parseFloat(value) of a number: the number
ParseFloat(v) == v

\* stopAutoAdjustmentMonitoring()
stopAutoAdjustmentMonitoring(e) == [e EXCEPT !.autoAdjustmentInterval = FALSE]

\* disableAutoExposureDueToManualChange(), called by the setters when auto is on
ManualChange(e) ==
    IF e.autoExposure
    THEN stopAutoAdjustmentMonitoring([e EXCEPT !.autoExposure = FALSE])
    ELSE e

\* setExposure without the upper clamp
setExposure_NoUpperClamp(e, value) ==
    ManualChange([e EXCEPT !.exposure = Max(-300, ParseFloat(value))])

\* setExposure(value)
setExposure(e, value) ==
    ManualChange([e EXCEPT !.exposure = Max(-300, Min(300, ParseFloat(value)))])

\* setBrightness(value)
setBrightness(e, value) ==
    ManualChange([e EXCEPT !.brightness = Max(-100, Min(100, ParseInt(value)))])

\* setContrast(value)
setContrast(e, value) ==
    ManualChange([e EXCEPT !.contrast = Max(0, Min(200, ParseInt(value)))])

\* setSaturation(value)
setSaturation(e, value) ==
    [e EXCEPT !.saturation = Max(0, Min(200, ParseInt(value)))]

\* setFocus(value): the setting is written before any hardware call
setFocus(e, value) ==
    [e EXCEPT !.focus = Max(0, Min(100, ParseInt(value)))]

\* increaseExposure(step = 0.1) / decreaseExposure(step = 0.1)
increaseExposure(e) == setExposure(e, e.exposure + 10)

decreaseExposure(e) == setExposure(e, e.exposure - 10)

\* increaseBrightness(step = 5) / decreaseBrightness(step = 5)
increaseBrightness(e) == setBrightness(e, (e.brightness + 5) * 100)

decreaseBrightness(e) == setBrightness(e, (e.brightness - 5) * 100)

\* resetExposure()
resetExposure(e) ==
    [e EXCEPT !.exposure = 0, !.brightness = 0, !.contrast = 100,
              !.saturation = 100, !.focus = 50, !.autoExposure = FALSE,
              !.autoAdjustmentInterval = FALSE]

\* performSoftwareAutoAdjustment(): the telescope preset, then monitoring
performSoftwareAutoAdjustment(e) ==
    [e EXCEPT !.exposure = 80, !.brightness = 15, !.contrast = 125,
              !.saturation = 90, !.autoAdjustmentInterval = TRUE]

\* intelligentExposureAdjustment(avgBrightness, darkRatio, brightRatio);
\* the ratios are in percent
intelligentExposureAdjustment(e, avgBrightness, darkRatio, brightRatio) ==
    LET e1 == IF avgBrightness < 80 /\ darkRatio > 60
              THEN [e EXCEPT !.exposure = Min(250, e.exposure + 20),
                             !.brightness = Min(80, e.brightness + 10)]
              ELSE IF avgBrightness > 180 /\ brightRatio > 40
              THEN [e EXCEPT !.exposure = Max(-150, e.exposure - 20),
                             !.brightness = Max(-40, e.brightness - 10)]
              ELSE e
    IN IF darkRatio > 70
       THEN [e1 EXCEPT !.contrast = Min(150, e1.contrast + 5)]
       ELSE IF brightRatio > 50
       THEN [e1 EXCEPT !.contrast = Max(100, e1.contrast - 5)]
       ELSE e1

----------------------------------------------------------------------------
(* Initial states                                                          *)

\* new ZoomController(...) followed by initialize()
ZoomControllerInit ==
    [scale |-> 10, minScale |-> 10, maxScale |-> 50, scaleStep |-> 1,
     translateX |-> 0, translateY |-> 0,
     isDragging |-> FALSE, lastMouseX |-> 0, lastMouseY |-> 0,
     zoomEnabled |-> FALSE, zoomChanged |-> <<>>]

\* new CrosshairController(...): the constructor's values; the style of the
\* crosshair elements is still empty
CrosshairControllerNew ==
    [isVisible |-> FALSE,
     circle2SizeControl |->
         [currentSize |-> 0, minSize |-> 20 * Unit, maxSize |-> 0,
          step |-> 5 * Unit, fineStep |-> 1 * Unit, borderWidth |-> 2 * Unit],
     circle1SizeControl |->
         [currentSize |-> 0, minSize |-> 50 * Unit, maxSize |-> 0,
          step |-> 5 * Unit, fineStep |-> 1 * Unit, borderWidth |-> 2 * Unit,
          marginFromCircle2 |-> 20 * Unit],
     circle3SizeControl |->
         [currentSize |-> 0, minSize |-> 20 * Unit, maxSize |-> 0,
          step |-> 5 * Unit, fineStep |-> 1 * Unit, borderWidth |-> 2 * Unit,
          marginFromCircle2 |-> 15 * Unit],
     isMiddleMouseDown |-> FALSE,
     isDraggingCenter |-> FALSE,
     centerOffsetX |-> 0, centerOffsetY |-> 0,
     dragMouseOffsetX |-> 0, dragMouseOffsetY |-> 0,
     crosshairLinesVisibleBeforeDrag |-> FALSE,
     circle1Visible |-> TRUE, circle2Visible |-> FALSE, circle3Visible |-> FALSE,
     rotationAngle |-> 4500, rotationStep |-> 125, fineRotationStep |-> 100,
     circle1Width |-> 0, circle2Width |-> 0, circle3Width |-> 0,
     hLineDisplay |-> "", iconDisplay |-> "",
     clickCount |-> [i \in {"rotation", "toggle1", "toggle2", "toggle3"} |-> 0],
     clickTimeout |-> [i \in {"rotation", "toggle1", "toggle2", "toggle3"} |-> FALSE]]

\* new WebcamManager(); ghost field loadResult is the outcome of the last
\* loadAvailableCameras() promise
WebcamManagerInit ==
    [stream |-> FALSE, liveTracks |-> 0, isActive |-> FALSE,
     availableCameras |-> <<>>, currentCameraId |-> "", loadResult |-> "none"]

\* new UIController(...): no camera is selected yet
UIControllerNew ==
    [isStarted |-> FALSE, currentStatus |-> "Ready", alertType |-> "info",
     selectedCamera |-> "", startStopDisabled |-> TRUE]

\* the UIController after a successful initialize(): a camera is selected
UIControllerInit ==
    [isStarted |-> FALSE, currentStatus |-> "Ready", alertType |-> "info",
     selectedCamera |-> "cam1", startStopDisabled |-> FALSE]

\* new ExposureController(...)
ExposureControllerInit ==
    [exposure |-> 0, brightness |-> 0, contrast |-> 100, saturation |-> 100,
     focus |-> 50, autoExposure |-> FALSE, autoAdjustmentInterval |-> FALSE,
     autoPending |-> FALSE, calls |-> 0]

\* calls counts the calls and timer ticks the exposure controller has run
MaxExposureCalls == 7

Called(e) == [e EXCEPT !.calls = @ + 1]

\* no timer is pending, no start is in flight, nothing has been clicked;
\* app is the progress of WebcamOverlayApp.initialize(); clicks, toggleCalls
\* and rotationResets count the clicks on the rotation icon and what they did
TimersInit ==
    [app |-> "new", startPending |-> "none", showTimers |-> 0, errorTimers |-> {},
     readyTimer |-> FALSE, events |-> 0,
     clicks |-> 0, toggleCalls |-> 0, rotationResets |-> 0]

\* events counts the pointer events delivered so far; MaxEvents of them are
\* delivered
MaxEvents == 9

CountEvent(t) == [t EXCEPT !.events = @ + 1]

\* new OverlayRenderer(...): framePending says a requestAnimationFrame
\* callback is scheduled
OverlayRendererInit ==
    [isRendering |-> FALSE, animationId |-> FALSE, framePending |-> FALSE]

\* OverlayRenderer.startRendering() / stopRendering()
startRendering(o) ==
    IF o.isRendering THEN o
    ELSE [o EXCEPT !.isRendering = TRUE, !.animationId = TRUE, !.framePending = TRUE]

\* a stopRendering() that clears the flag and leaves the scheduled frame alone
stopRendering_KeepsFrame(o) == [o EXCEPT !.isRendering = FALSE]

stopRendering(o) ==
    [o EXCEPT !.isRendering = FALSE, !.animationId = FALSE,
              !.framePending = IF o.animationId THEN FALSE ELSE o.framePending]

\* OverlayRenderer.pauseRendering(): stopRendering() without clearing the canvas
pauseRendering(o) ==
    [o EXCEPT !.isRendering = FALSE, !.animationId = FALSE,
              !.framePending = IF o.animationId THEN FALSE ELSE o.framePending]

\* The camera has been started: loadedmetadata has started the render loop
\* and the 100 ms timer of cameraStreamStarted has shown the crosshair
RunningIn(width, height) ==
    /\ env = [width |-> width, height |-> height]
    /\ wm = [WebcamManagerInit EXCEPT !.availableCameras = <<"cam1">>,
                                      !.loadResult = "resolved",
                                      !.currentCameraId = "cam1",
                                      !.stream = TRUE, !.liveTracks = 1,
                                      !.isActive = TRUE]
    /\ ui = [UIControllerInit EXCEPT !.isStarted = TRUE,
                                     !.currentStatus = "Camera started successfully",
                                     !.alertType = "success"]
    /\ LET shown == show(UpdateCircleSizes(UpdateCircleSizes(CrosshairControllerNew)),
                         [ZoomControllerInit EXCEPT !.zoomEnabled = TRUE], wm)
       IN cc = shown.cc /\ zc = shown.zc
    /\ ec = ExposureControllerInit
    /\ ov = startRendering(OverlayRendererInit)
    /\ tm = [TimersInit EXCEPT !.app = "ready"]

\* The camera has been started and stopped again: UIController.stopWebcam has
\* hidden the crosshair, and hide() has left wheel zoom enabled
StoppedIn(width, height) ==
    /\ env = [width |-> width, height |-> height]
    /\ wm = [WebcamManagerInit EXCEPT !.availableCameras = <<"cam1">>,
                                      !.loadResult = "resolved",
                                      !.currentCameraId = "cam1"]
    /\ ui = [UIControllerInit EXCEPT !.currentStatus = "Camera stopped"]
    /\ LET shown == show(UpdateCircleSizes(UpdateCircleSizes(CrosshairControllerNew)),
                         [ZoomControllerInit EXCEPT !.zoomEnabled = TRUE],
                         [isActive |-> TRUE])
           hidden == hide(shown.cc, shown.zc)
       IN cc = hidden.cc /\ zc = hidden.zc
    /\ ec = ExposureControllerInit
    /\ ov = OverlayRendererInit
    /\ tm = [TimersInit EXCEPT !.app = "ready"]

----------------------------------------------------------------------------
(* Pointer and wheel events on the container.  Each action runs every      *)
(* listener of the event: the zoom controller's (registered first) and the *)
(* crosshair controller's.                                                 *)

\* 'wheel': ZoomController.handleWheel(event)
Wheel(over, mouseX, mouseY, deltaY) ==
    LET z == [zc EXCEPT !.zoomChanged = <<>>]
        delegated == handleWheelEvent(cc, z, over, mouseX, mouseY, deltaY)
    IN /\ tm.events < MaxEvents
       /\ zc' = IF zc.zoomEnabled THEN WheelZoom(z, mouseX, mouseY, deltaY)
                ELSE delegated.zc
       /\ cc' = IF zc.zoomEnabled THEN cc ELSE delegated.cc
       /\ tm' = CountEvent(tm)
       /\ UNCHANGED <<env, wm, ui, ec, ov>>

\* 'mousedown' on the container
MouseDown(button, mouseX, mouseY) ==
    /\ tm.events < MaxEvents
    /\ zc' = zoomHandleMouseDown([zc EXCEPT !.zoomChanged = <<>>], button, mouseX, mouseY)
    /\ cc' = crosshairMouseDown(cc, button, mouseX, mouseY)
    /\ tm' = CountEvent(tm)
    /\ UNCHANGED <<env, wm, ui, ec, ov>>

\* 'mousemove' inside the container (document and container listeners)
MouseMove(mouseX, mouseY) ==
    /\ tm.events < MaxEvents
    /\ zc' = zoomHandleMouseMove([zc EXCEPT !.zoomChanged = <<>>], mouseX, mouseY)
    /\ cc' = crosshairMouseMove(cc, mouseX, mouseY)
    /\ tm' = CountEvent(tm)
    /\ UNCHANGED <<env, wm, ui, ec, ov>>

\* 'mouseup': the document listener always, the container listener when the
\* button is released inside the container
MouseUp(button, inside) ==
    /\ tm.events < MaxEvents
    /\ zc' = zoomHandleMouseUp([zc EXCEPT !.zoomChanged = <<>>])
    /\ cc' = IF inside THEN crosshairMouseUp(cc, button) ELSE cc
    /\ tm' = CountEvent(tm)
    /\ UNCHANGED <<env, wm, ui, ec, ov>>

\* 'mouseleave' of the container
MouseLeave ==
    /\ tm.events < MaxEvents
    /\ cc' = crosshairMouseLeave(cc)
    /\ tm' = CountEvent(tm)
    /\ UNCHANGED <<env, zc, wm, ui, ec, ov>>

\* 'dblclick' on the container, the reset button, Ctrl+0: resetZoom()
ResetZoom ==
    /\ zc' = resetZoom([zc EXCEPT !.zoomChanged = <<>>])
    /\ UNCHANGED <<env, cc, wm, ui, ec, ov, tm>>

\* zoomIn(centerX, centerY): the + button and Ctrl+= call it without a centre
ZoomIn(hasCenter, centerX, centerY) ==
    /\ zc' = setZoom([zc EXCEPT !.zoomChanged = <<>>], zc.scale + zc.scaleStep,
                     hasCenter, centerX, centerY)
    /\ UNCHANGED <<env, cc, wm, ui, ec, ov, tm>>

\* zoomOut(centerX, centerY)
ZoomOut(hasCenter, centerX, centerY) ==
    /\ zc' = setZoom([zc EXCEPT !.zoomChanged = <<>>], zc.scale - zc.scaleStep,
                     hasCenter, centerX, centerY)
    /\ UNCHANGED <<env, cc, wm, ui, ec, ov, tm>>

\* setZoom(scale, centerX, centerY) with any requested scale
SetZoom(requested, hasCenter, centerX, centerY) ==
    /\ zc' = setZoom([zc EXCEPT !.zoomChanged = <<>>], requested,
                     hasCenter, centerX, centerY)
    /\ UNCHANGED <<env, cc, wm, ui, ec, ov, tm>>

----------------------------------------------------------------------------
(* Clicks on the crosshair icons                                           *)

\* a double click that also flips the crosshair lines
DoubleClick_TogglesLines(c, icon) ==
    IF icon = "rotation"
    THEN [resetRotation(c) EXCEPT !.hLineDisplay =
              IF c.hLineDisplay = "none" THEN "block" ELSE "none"]
    ELSE c

\* what the second click of a double click does
DoubleClick(c, icon) == IF icon = "rotation" THEN resetRotation(c) ELSE c

\* 'click' on the rotation icon or on a toggle icon: the first click arms a
\* 250 ms timer, the second one within the window clears it
MaxClicks == 4

Click(icon) ==
    /\ tm.events < MaxEvents
    /\ cc.iconDisplay # "none"
    /\ icon = "rotation" => tm.clicks < MaxClicks
    /\ LET count == cc.clickCount[icon] + 1
       IN /\ cc' = IF count = 1
                   THEN [cc EXCEPT !.clickCount[icon] = 1, !.clickTimeout[icon] = TRUE]
                   ELSE IF count = 2
                   THEN [DoubleClick(cc, icon) EXCEPT !.clickCount[icon] = 0,
                                                      !.clickTimeout[icon] = FALSE]
                   ELSE [cc EXCEPT !.clickCount[icon] = count]
          /\ tm' = [CountEvent(tm) EXCEPT
                              !.clicks = IF icon = "rotation" THEN @ + 1 ELSE @,
                              !.rotationResets =
                                  IF count = 2 /\ icon = "rotation" THEN @ + 1 ELSE @]
    /\ UNCHANGED <<env, zc, wm, ui, ec, ov>>

\* the 250 ms timer of a first click fires: the single-click action
ClickTimeout(icon) ==
    /\ cc.clickTimeout[icon]
    /\ LET armed == [cc EXCEPT !.clickTimeout[icon] = FALSE, !.clickCount[icon] = 0]
           lines == toggleCrosshairLines(armed, zc, wm)
       IN /\ cc' = CASE icon = "rotation" -> lines.cc
                     [] icon = "toggle1" -> toggleCircle1Visibility(armed)
                     [] icon = "toggle2" -> toggleCircle2Visibility(armed)
                     [] icon = "toggle3" -> toggleCircle3Visibility(armed)
          /\ zc' = IF icon = "rotation" THEN lines.zc ELSE zc
    /\ tm' = [tm EXCEPT !.toggleCalls = IF icon = "rotation" THEN @ + 1 ELSE @]
    /\ UNCHANGED <<env, wm, ui, ec, ov>>

\* 'click' on the reset icon
ResetClick ==
    /\ tm.events < MaxEvents
    /\ cc.iconDisplay # "none"
    /\ cc' = resetCirclesToDefault(cc)
    /\ tm' = CountEvent(tm)
    /\ UNCHANGED <<env, zc, wm, ui, ec, ov>>

----------------------------------------------------------------------------
(* Application start-up                                                    *)

\* UIController.populateCameraSelect(cameras): the first camera is selected
populateCameraSelect(u, cameras) ==
    IF Len(cameras) = 0 THEN [u EXCEPT !.startStopDisabled = TRUE]
    ELSE enableStartButton([u EXCEPT !.selectedCamera = cameras[1]])

\* WebcamManager.initialize() inside WebcamOverlayApp.initializeComponents():
\* a rejected loadAvailableCameras() is rethrown and the application stops
\* before any controller exists
WebcamManagerInitialize(gum, devices, devices2) ==
    /\ tm.app = "new"
    /\ wm' = loadAvailableCameras(wm, gum, devices, devices2)
    /\ tm' = [tm EXCEPT !.app = IF wm'.loadResult = "resolved"
                                THEN "components" ELSE "failed"]
    /\ UNCHANGED <<env, zc, cc, ui, ec, ov>>

\* UIController.initialize(): loadCameras() loads the list once more, arms
\* the 2 s timer of 'Ready' on success and catches a rejection
UILoadCameras(gum, devices, devices2) ==
    /\ tm.app = "components"
    /\ wm' = loadAvailableCameras(wm, gum, devices, devices2)
    /\ LET loading == [ui EXCEPT !.selectedCamera = ""]
           failed == showError(loading, tm, "Failed to load cameras.")
       IN IF wm'.loadResult = "resolved"
          THEN /\ ui' = updateStatus(populateCameraSelect(loading, wm'.availableCameras),
                                     "Cameras loaded successfully", "success")
               /\ tm' = [tm EXCEPT !.app = "ready", !.readyTimer = TRUE]
          ELSE /\ ui' = enableStartButton(failed.ui)
               /\ tm' = [failed.tm EXCEPT !.app = "ready"]
    /\ UNCHANGED <<env, zc, cc, ec, ov>>

\* the values of the camera select: the placeholder and the listed cameras,
\* or the manual entry after a failed load
CameraOptions ==
    IF wm.loadResult = "resolved"
    THEN {""} \cup {wm.availableCameras[i] : i \in 1..Len(wm.availableCameras)}
    ELSE {"", "default"}

\* 'change' of the camera select (enabled while the camera is not started)
SelectCamera(value) ==
    /\ tm.app = "ready"
    /\ value \in CameraOptions
    /\ ~ui.isStarted
    /\ tm.startPending = "none"
    /\ ui' = enableStartButton([ui EXCEPT !.selectedCamera = value])
    /\ UNCHANGED <<env, zc, cc, wm, ec, ov, tm>>

----------------------------------------------------------------------------
(* Starting and stopping the camera                                        *)

MaxShowTimers == 2

\* UIController.toggleWebcam() -> startWebcam(), up to the await of
\* getUserMedia inside WebcamManager.startWebcam(); a start is taken while no
\* other start is in flight
StartBegin ==
    /\ tm.app = "ready"
    /\ ~ui.isStarted
    /\ ~ui.startStopDisabled
    /\ tm.startPending = "none"
    /\ ui' = [updateStatus(ui, "Starting camera...", "info")
              EXCEPT !.startStopDisabled = TRUE]
    /\ wm' = [(IF wm.isActive THEN wmStopWebcam(wm) ELSE wm)
              EXCEPT !.currentCameraId =
                  IF ui.selectedCamera # "" THEN ui.selectedCamera
                  ELSE IF Len(wm.availableCameras) > 0 THEN wm.availableCameras[1]
                  ELSE "default"]
    /\ tm' = [tm EXCEPT !.startPending = "getUserMedia"]
    /\ UNCHANGED <<env, zc, cc, ec, ov>>

\* getUserMedia resolves: the stream becomes the source of the video element
GetUserMediaResolves ==
    /\ tm.startPending = "getUserMedia"
    /\ wm' = [wm EXCEPT !.stream = TRUE, !.liveTracks = 1]
    /\ tm' = [tm EXCEPT !.startPending = "play"]
    /\ UNCHANGED <<env, zc, cc, ui, ec, ov>>

\* video.play() resolves: the rest of WebcamManager.startWebcam (isActive,
\* cameraStreamStarted with the 100 ms timer of the crosshair controller) and
\* of UIController.startWebcam
PlayResolves ==
    /\ tm.startPending = "play"
    /\ tm.showTimers < MaxShowTimers
    /\ wm' = [wm EXCEPT !.isActive = TRUE]
    /\ tm' = [tm EXCEPT !.startPending = "none", !.showTimers = @ + 1]
    /\ ui' = updateStatus([ui EXCEPT !.isStarted = TRUE],
                          "Camera started successfully", "success")
    /\ LET notified == onCameraStateChange(cc, zc, TRUE)
       IN /\ cc' = notified.cc
          /\ zc' = [notified.zc EXCEPT !.zoomEnabled = TRUE]
    /\ UNCHANGED <<env, ec, ov>>

\* getUserMedia or video.play() rejects with the named exception
StartRejects(name) ==
    /\ tm.startPending # "none"
    /\ LET handled == StartFailureHandling(ui, tm, name)
       IN /\ ui' = handled.ui
          /\ tm' = [handled.tm EXCEPT !.startPending = "none"]
    /\ UNCHANGED <<env, zc, cc, wm, ec, ov>>

\* 'loadedmetadata' of the video element: webcamLoaded
VideoLoaded ==
    /\ wm.stream
    /\ ui' = updateStatus(enableStartButton(ui), "Camera active", "success")
    /\ ov' = startRendering(ov)
    /\ UNCHANGED <<env, zc, cc, wm, ec, tm>>

\* 'error' of the video element: handleError('Video playback error')
VideoError ==
    /\ wm.stream
    /\ LET handled == onWebcamError(ui, tm, "Video playback error")
       IN ui' = handled.ui /\ tm' = handled.tm
    /\ UNCHANGED <<env, zc, cc, wm, ec, ov>>

\* UIController.toggleWebcam() -> stopWebcam()
StopWebcam ==
    /\ tm.app = "ready"
    /\ ui.isStarted
    /\ ~ui.startStopDisabled
    /\ wm' = wmStopWebcam(wm)
    /\ ov' = stopRendering(ov)
    /\ ui' = updateStatus([ui EXCEPT !.isStarted = FALSE], "Camera stopped", "info")
    /\ LET notified == onCameraStateChange(cc, zc, FALSE)
           \* the listener of cameraStreamStopped
           stopped == hide(notified.cc, [notified.zc EXCEPT !.zoomEnabled = FALSE])
       IN cc' = stopped.cc /\ zc' = stopped.zc
    /\ UNCHANGED <<env, ec, tm>>

\* the 100 ms timer set by cameraStreamStarted
ShowTimer ==
    /\ tm.showTimers > 0
    /\ LET shown == show(UpdateCircleSizes(cc), zc, wm)
       IN cc' = shown.cc /\ zc' = shown.zc
    /\ tm' = [tm EXCEPT !.showTimers = @ - 1]
    /\ UNCHANGED <<env, wm, ui, ec, ov>>

\* the 10 s timer of showError(message)
ErrorTimer(message) ==
    /\ message \in tm.errorTimers
    /\ ui' = IF ui.currentStatus = message THEN updateStatus(ui, "Ready", "info") ELSE ui
    /\ tm' = [tm EXCEPT !.errorTimers = @ \ {message}]
    /\ UNCHANGED <<env, zc, cc, wm, ec, ov>>

\* a requestAnimationFrame callback runs renderLoop()
AnimationFrame ==
    /\ ov.framePending
    /\ ov' = IF ov.isRendering THEN ov ELSE [ov EXCEPT !.framePending = FALSE]
    /\ UNCHANGED <<env, zc, cc, wm, ui, ec, tm>>

\* 'visibilitychange' of the document: the listener of the overlay renderer
\* (video.srcObject is the manager's stream) and handleVisibilityChange() of
\* the application
VisibilityChange(hidden) ==
    /\ tm.app = "ready"
    /\ LET first == IF hidden /\ ov.isRendering THEN pauseRendering(ov)
                    ELSE IF ~hidden /\ ~ov.isRendering /\ wm.stream
                    THEN startRendering(ov)
                    ELSE ov
       IN ov' = IF hidden THEN pauseRendering(first)
                ELSE IF wm.isActive THEN startRendering(first)
                ELSE first
    /\ UNCHANGED <<env, zc, cc, wm, ui, ec, tm>>

\* CrosshairController.show() / hide() called directly
CrosshairShow ==
    /\ LET shown == show(cc, zc, wm) IN cc' = shown.cc /\ zc' = shown.zc
    /\ UNCHANGED <<env, wm, ui, ec, ov, tm>>

CrosshairHide ==
    /\ LET hidden == hide(cc, zc) IN cc' = hidden.cc /\ zc' = hidden.zc
    /\ UNCHANGED <<env, wm, ui, ec, ov, tm>>

\* the 2 s timer of loadCameras()
ReadyTimer ==
    /\ tm.readyTimer
    /\ ui' = updateStatus(ui, "Ready", "info")
    /\ tm' = [tm EXCEPT !.readyTimer = FALSE]
    /\ UNCHANGED <<env, zc, cc, wm, ec, ov>>

----------------------------------------------------------------------------
(* Exposure controls                                                       *)

SetExposure(value) ==
    /\ ec.calls < MaxExposureCalls
    /\ ec' = Called(setExposure(ec, value))
    /\ UNCHANGED <<env, zc, cc, wm, ui, ov, tm>>

SetBrightness(value) ==
    /\ ec.calls < MaxExposureCalls
    /\ ec' = Called(setBrightness(ec, value))
    /\ UNCHANGED <<env, zc, cc, wm, ui, ov, tm>>

SetContrast(value) ==
    /\ ec.calls < MaxExposureCalls
    /\ ec' = Called(setContrast(ec, value))
    /\ UNCHANGED <<env, zc, cc, wm, ui, ov, tm>>

SetSaturation(value) ==
    /\ ec.calls < MaxExposureCalls
    /\ ec' = Called(setSaturation(ec, value))
    /\ UNCHANGED <<env, zc, cc, wm, ui, ov, tm>>

SetFocus(value) ==
    /\ ec.calls < MaxExposureCalls
    /\ ec' = Called(setFocus(ec, value))
    /\ UNCHANGED <<env, zc, cc, wm, ui, ov, tm>>

\* Ctrl+E / Ctrl+D and the API of the same name
IncreaseExposure ==
    /\ ec.calls < MaxExposureCalls
    /\ ec' = Called(increaseExposure(ec))
    /\ UNCHANGED <<env, zc, cc, wm, ui, ov, tm>>

DecreaseExposure ==
    /\ ec.calls < MaxExposureCalls
    /\ ec' = Called(decreaseExposure(ec))
    /\ UNCHANGED <<env, zc, cc, wm, ui, ov, tm>>

IncreaseBrightness ==
    /\ ec.calls < MaxExposureCalls
    /\ ec' = Called(increaseBrightness(ec))
    /\ UNCHANGED <<env, zc, cc, wm, ui, ov, tm>>

DecreaseBrightness ==
    /\ ec.calls < MaxExposureCalls
    /\ ec' = Called(decreaseBrightness(ec))
    /\ UNCHANGED <<env, zc, cc, wm, ui, ov, tm>>

\* the reset button and Ctrl+Shift+R
ResetExposure ==
    /\ ec.calls < MaxExposureCalls
    /\ ec' = Called(resetExposure(ec))
    /\ UNCHANGED <<env, zc, cc, wm, ui, ov, tm>>

\* setAutoExposure(enabled) up to its await: with a stream the function waits
\* for applyConstraints before the software adjustment, without one it runs
\* through; one enabling call is in flight at a time
SetAutoExposure(enabled) ==
    /\ enabled /\ wm.stream => ~ec.autoPending
    /\ ec.calls < MaxExposureCalls
    /\ ec' = Called(IF enabled
             THEN IF wm.stream
                  THEN [ec EXCEPT !.autoExposure = TRUE, !.autoPending = TRUE]
                  ELSE performSoftwareAutoAdjustment([ec EXCEPT !.autoExposure = TRUE])
             ELSE stopAutoAdjustmentMonitoring([ec EXCEPT !.autoExposure = FALSE]))
    /\ UNCHANGED <<env, zc, cc, wm, ui, ov, tm>>

\* applyConstraints settles (either way): the rest of setAutoExposure(true)
AutoExposureContinues ==
    /\ ec.autoPending
    /\ ec.calls < MaxExposureCalls
    /\ ec' = Called(performSoftwareAutoAdjustment([ec EXCEPT !.autoPending = FALSE]))
    /\ UNCHANGED <<env, zc, cc, wm, ui, ov, tm>>

\* one tick of the 2 s interval: analyzeAndAdjustExposure() on a frame whose
\* analysis gives (avgBrightness, darkRatio, brightRatio)
AutoAdjustTick(avgBrightness, darkRatio, brightRatio) ==
    /\ ec.autoAdjustmentInterval
    /\ ec.calls < MaxExposureCalls
    /\ ec' = Called(IF ec.autoExposure /\ wm.stream
             THEN intelligentExposureAdjustment(ec, avgBrightness, darkRatio, brightRatio)
             ELSE ec)
    /\ UNCHANGED <<env, zc, cc, wm, ui, ov, tm>>

----------------------------------------------------------------------------
(* Specification of zooming and panning: a small container, the pointer at *)
(* its corners, the camera running (crosshair shown, wheel zoom routed     *)
(* through the crosshair controller) or stopped (wheel zoom enabled)       *)

ZoomWidth == 2

ZoomHeight == 2

ZoomPoints == {<<0, 0>>, <<ZoomWidth, ZoomHeight>>}

\* requested scales of setZoom in tenths: below, at, between and above the limits
RequestedScales == {-10, 10, 25, 51}

WheelDeltas == {-100, 100}

InitZoom == RunningIn(ZoomWidth, ZoomHeight) \/ StoppedIn(ZoomWidth, ZoomHeight)

NextZoom ==
    \/ \E p \in ZoomPoints, d \in WheelDeltas : Wheel("none", p[1], p[2], d)
    \/ \E p \in ZoomPoints : MouseDown(0, p[1], p[2])
    \/ \E p \in ZoomPoints : MouseMove(p[1], p[2])
    \/ \E inside \in BOOLEAN : MouseUp(0, inside)
    \/ ResetZoom
    \/ \E hasCenter \in BOOLEAN, p \in ZoomPoints : ZoomIn(hasCenter, p[1], p[2])
    \/ \E hasCenter \in BOOLEAN, p \in ZoomPoints : ZoomOut(hasCenter, p[1], p[2])
    \/ \E r \in RequestedScales, hasCenter \in BOOLEAN, p \in ZoomPoints :
           SetZoom(r, hasCenter, p[1], p[2])

SpecZoom == InitZoom /\ [][NextZoom]_vars

\* C1: in every state reachable by zoom operations the zoom scale stays
\* within [minScale, maxScale] = [1, 5] (in tenths: [10, 50])
C1_ScaleWithinLimits ==
    /\ zc.minScale = 10 /\ zc.maxScale = 50
    /\ zc.scale >= zc.minScale /\ zc.scale <= zc.maxScale

\* a request above the upper limit, about a centre point, has been clamped to
\* the limit and has moved the picture
C1_Witness ==
    /\ zc.scale = zc.maxScale
    /\ Len(zc.zoomChanged) = 1
    /\ zc.translateX # 0

\* C6 (as stated): the pan translation stays within the limits of the current
\* scale, |translateX| <= W*(scale-1)/2 and |translateY| <= H*(scale-1)/2
C6_TranslationWithinLimits ==
    /\ 20 * Abs(zc.translateX) <= env.width * (zc.scale - 10)
    /\ 20 * Abs(zc.translateY) <= env.height * (zc.scale - 10)

\* C12: resetZoom, from any reachable zoom state, yields scale 1 and
\* translation (0, 0) and dispatches one zoomChanged event carrying those
\* values; applying it a second time gives the same state as applying it once
C12_ResetZoomIsIdempotent ==
    [][ResetZoom =>
          /\ zc'.scale = 10 /\ zc'.translateX = 0 /\ zc'.translateY = 0
          /\ zc'.zoomChanged = <<[scale |-> 10, translateX |-> 0, translateY |-> 0]>>
          /\ resetZoom([zc' EXCEPT !.zoomChanged = <<>>]) = zc']_vars

\* the zoom has been reset in the middle of a drag that began at the far
\* corner of the container
C12_Witness ==
    /\ zc.zoomChanged = <<[scale |-> 10, translateX |-> 0, translateY |-> 0]>>
    /\ zc.scale = 10 /\ zc.translateX = 0 /\ zc.translateY = 0
    /\ zc.isDragging /\ zc.lastMouseX = ZoomWidth

----------------------------------------------------------------------------
(* Specification of the exposure controls while the camera is running      *)

ExposureWidth == 90

ExposureHeight == 104

\* arguments in hundredths: below the lower bound, fractional, above the upper
ExposureInputs == {-350, 295}

BrightnessInputs == {-15070, 10050}

ContrastInputs == {-500, 25099}

SaturationInputs == {-550, 25000}

FocusInputs == {-100, 10100}

\* frame analyses (avgBrightness, darkRatio %, brightRatio %): very dark,
\* very bright, balanced
FrameAnalyses == {<<30, 80, 5>>, <<220, 2, 60>>, <<128, 10, 10>>}

InitExposure == RunningIn(ExposureWidth, ExposureHeight)

NextExposure ==
    \/ \E v \in ExposureInputs : SetExposure(v)
    \/ \E v \in BrightnessInputs : SetBrightness(v)
    \/ \E v \in ContrastInputs : SetContrast(v)
    \/ \E v \in SaturationInputs : SetSaturation(v)
    \/ \E v \in FocusInputs : SetFocus(v)
    \/ IncreaseExposure
    \/ DecreaseExposure
    \/ IncreaseBrightness
    \/ DecreaseBrightness
    \/ ResetExposure
    \/ \E enabled \in BOOLEAN : SetAutoExposure(enabled)
    \/ AutoExposureContinues
    \/ \E f \in FrameAnalyses : AutoAdjustTick(f[1], f[2], f[3])

SpecExposure == InitExposure /\ [][NextExposure]_vars

\* C3: every exposure setting stays within its per-control bounds: exposure
\* in [-3, 3] (hundredths: [-300, 300]), brightness in [-100, 100], contrast
\* in [0, 200], saturation in [0, 200], focus in [0, 100]
C3_SettingsWithinBounds ==
    /\ ec.exposure >= -300 /\ ec.exposure <= 300
    /\ ec.brightness >= -100 /\ ec.brightness <= 100
    /\ ec.contrast >= 0 /\ ec.contrast <= 200
    /\ ec.saturation >= 0 /\ ec.saturation <= 200
    /\ ec.focus >= 0 /\ ec.focus <= 100

\* the automatic adjustment has moved the contrast, then a step from 2.95 has
\* been clamped to the upper bound of exposure and an out-of-range argument
\* to the lower bound of brightness
C3_Witness ==
    /\ ec.contrast = 130
    /\ ec.exposure = 300
    /\ ec.brightness = -100

----------------------------------------------------------------------------
(* Specification of the camera life cycle, from the loading of the page    *)

CameraWidth == 90

CameraHeight == 104

\* the page before WebcamOverlayApp.initialize()
InitCamera ==
    /\ env = [width |-> CameraWidth, height |-> CameraHeight]
    /\ zc = ZoomControllerInit
    /\ cc = UpdateCircleSizes(CrosshairControllerNew)
    /\ wm = WebcamManagerInit
    /\ ui = UIControllerNew
    /\ ec = ExposureControllerInit
    /\ ov = OverlayRendererInit
    /\ tm = TimersInit

\* outcomes of the permission request of loadAvailableCameras()
PermissionOutcomes == {"ok", "NotAllowedError"}

\* the exceptions a failing start is checked with
StartFailures ==
    {"NotAllowedError", "NotFoundError", "NotReadableError", "NotSupportedError"}

NextCamera ==
    \/ \E gum \in PermissionOutcomes, d \in Enumerations, d2 \in Enumerations :
           WebcamManagerInitialize(gum, d, d2)
    \/ \E gum \in PermissionOutcomes, d \in Enumerations, d2 \in Enumerations :
           UILoadCameras(gum, d, d2)
    \/ \E v \in {"", "default", "cam1", "cam2"} : SelectCamera(v)
    \/ StartBegin
    \/ GetUserMediaResolves
    \/ PlayResolves
    \/ \E name \in StartFailures : StartRejects(name)
    \/ VideoLoaded
    \/ VideoError
    \/ StopWebcam
    \/ ShowTimer
    \/ \E m \in tm.errorTimers : ErrorTimer(m)
    \/ ReadyTimer
    \/ AnimationFrame
    \/ CrosshairShow
    \/ CrosshairHide

SpecCamera == InitCamera /\ [][NextCamera]_vars

\* C4 (as stated): when a start fails because getUserMedia rejects with a
\* permission or device error, the status text left by the failure handling
\* of that start is the message getErrorMessage maps from the exception name,
\* with alert type 'danger'
C4_StatusIsMappedMessage ==
    [][\A name \in StartFailures :
          (tm.startPending = "getUserMedia" /\ StartRejects(name))
              => (ui'.currentStatus = getErrorMessage(name) /\ ui'.alertType = "danger")]_vars

\* C5 (as stated): loadAvailableCameras never rejects, and once it has
\* returned the camera list is not empty
C5_LoadNeverRejects ==
    /\ wm.loadResult # "rejected"
    /\ wm.loadResult = "resolved" => Len(wm.availableCameras) > 0

\* C7 (as stated): while the crosshair is visible, wheel zoom is disabled
C7_VisibleImpliesZoomDisabled == cc.isVisible => ~zc.zoomEnabled

----------------------------------------------------------------------------
(* Specification of the rotation icon: clicks, their 250 ms timers, wheel  *)
(* rotation, and the crosshair being hidden and shown meanwhile            *)

ClicksWidth == 90

ClicksHeight == 104

InitClicks == RunningIn(ClicksWidth, ClicksHeight)

NextClicks ==
    \/ Click("rotation")
    \/ ClickTimeout("rotation")
    \/ \E d \in WheelDeltas : Wheel("rotation", 0, 0, d)
    \/ StopWebcam
    \/ CrosshairHide
    \/ CrosshairShow

SpecClicks == InitClicks /\ [][NextClicks]_vars

\* the second click of a double click on the rotation icon
SecondRotationClick == Click("rotation") /\ cc.clickCount["rotation"] = 1

FlippedLines(display) == IF display = "none" THEN "block" ELSE "none"

\* every click on the rotation icon has gone into one toggleCrosshairLines()
\* call, into one half of a reset, or is waiting for its timer
ClicksAccounted(t, c) ==
    t.clicks = t.toggleCalls + 2 * t.rotationResets + c.clickCount["rotation"]

----------------------------------------------------------------------------
(* Specification of the crosshair circles: wheel resizes, fine mode, centre *)
(* drags, visibility toggles and reset, in a container the default circles  *)
(* fit in                                                                   *)

CircleWidth == 90

CircleHeight == 104

ToggleIcons == {"toggle1", "toggle2", "toggle3"}

\* the container centre, and a point far below it
CirclePoints == {<<CircleWidth \div 2, CircleHeight \div 2>>,
                 <<CircleWidth \div 2, CircleHeight>>}

InitCircles == RunningIn(CircleWidth, CircleHeight)

NextCircles ==
    \/ \E icon \in ToggleIcons, d \in WheelDeltas : Wheel(icon, 0, 0, d)
    \/ \E d \in WheelDeltas : Wheel("none", CircleWidth \div 2, CircleHeight \div 2, d)
    \/ \E button \in {1, 2} : MouseDown(button, CircleWidth \div 2, CircleHeight \div 2)
    \/ \E p \in CirclePoints : MouseMove(p[1], p[2])
    \/ \E button \in {1, 2} : MouseUp(button, TRUE)
    \/ MouseLeave
    \/ \E icon \in ToggleIcons : Click(icon)
    \/ \E icon \in ToggleIcons : ClickTimeout(icon)
    \/ ResetClick

SpecCircles == InitCircles /\ [][NextCircles]_vars

\* C2 (as stated): the circle_2 diameter never exceeds the circle_1 diameter
\* minus the 20 px margin
C2_Circle2WithinCircle1 ==
    cc.circle2SizeControl.currentSize
        <= cc.circle1SizeControl.currentSize - cc.circle1SizeControl.marginFromCircle2

\* C9 (as stated): circle_1 lies inside the container with the 5 px safety
\* margin on every side
C9_Circle1InsideContainer ==
    LET centerX == ClientWidth \div 2 + cc.centerOffsetX
        centerY == ClientHeight \div 2 + cc.centerOffsetY
        diameter == cc.circle1SizeControl.currentSize
    IN /\ 2 * centerX - diameter >= 2 * safetyMargin
       /\ 2 * centerX + diameter <= 2 * (ClientWidth - safetyMargin)
       /\ 2 * centerY - diameter >= 2 * safetyMargin
       /\ 2 * centerY + diameter <= 2 * (ClientHeight - safetyMargin)

\* the largest change of any circle's diameter in a step
DiameterChange(c, d) ==
    Max(Abs(d.circle1SizeControl.currentSize - c.circle1SizeControl.currentSize),
        Max(Abs(d.circle2SizeControl.currentSize - c.circle2SizeControl.currentSize),
            Abs(d.circle3SizeControl.currentSize - c.circle3SizeControl.currentSize)))

\* a wheel event of NextCircles
CircleWheel ==
    \E icon \in ToggleIcons \cup {"none"}, d \in WheelDeltas :
        Wheel(icon, IF icon = "none" THEN CircleWidth \div 2 ELSE 0,
              IF icon = "none" THEN CircleHeight \div 2 ELSE 0, d)

\* C10 (as stated): a wheel step changes a diameter by at most fineStep (1 px)
\* while the right button is held and by at most step (5 px) otherwise; fine
\* mode is on exactly from a right-button mousedown until the next
\* right-button mouseup or mouseleave
C10_StepSizes ==
    [][/\ CircleWheel =>
              DiameterChange(cc, cc') <= (IF cc.isMiddleMouseDown THEN 1 ELSE 5) * Unit
       /\ (\E p \in CirclePoints : MouseDown(2, p[1], p[2])) => cc'.isMiddleMouseDown
       /\ (MouseUp(2, TRUE) \/ MouseLeave) => ~cc'.isMiddleMouseDown
       /\ cc'.isMiddleMouseDown # cc.isMiddleMouseDown =>
              \/ \E p \in CirclePoints : MouseDown(2, p[1], p[2])
              \/ MouseUp(2, TRUE)
              \/ MouseLeave]_vars

----------------------------------------------------------------------------
(* Specification of stopping: the camera is running and is stopped,        *)
(* restarted, fails and loses its video, while the page is hidden and shown *)
(* and timers and animation frames run                                      *)

StopWidth == 90

StopHeight == 104

InitStop == RunningIn(StopWidth, StopHeight)

NextStop ==
    \/ StopWebcam
    \/ StartBegin
    \/ GetUserMediaResolves
    \/ PlayResolves
    \/ \E name \in StartFailures : StartRejects(name)
    \/ VideoLoaded
    \/ VideoError
    \/ ShowTimer
    \/ \E m \in tm.errorTimers : ErrorTimer(m)
    \/ AnimationFrame
    \/ \E hidden \in BOOLEAN : VisibilityChange(hidden)
    \/ CrosshairShow
    \/ CrosshairHide

SpecStop == InitStop /\ [][NextStop]_vars

C13_VisibleOnlyWhileActive == cc.isVisible => wm.isActive

\* C14 (as stated): wheel zoom is disabled while the camera is not running:
\* when UIController.stopWebcam has completed, with cameraStreamStopped
\* delivered to its listeners, zoomEnabled is false, and it stays false until
\* a start of the camera succeeds
C14_ZoomDisabledAfterStop ==
    [][/\ StopWebcam => ~zc'.zoomEnabled
       /\ (~wm.isActive /\ ~zc.zoomEnabled /\ ~PlayResolves) => ~zc'.zoomEnabled]_vars

====
